---- MODULE Spec2Model ----
(***************************************************************************)
(* Chicago_sales_app.py: a Streamlit script that is re-run from top to     *)
(* bottom on every user interaction (one "pass").  State that survives a   *)
(* pass: the spreadsheet (Record Source), the st.cache_data entry of       *)
(* load_data and the st.cache_resource entry of connect_gsheet.            *)
(*                                                                         *)
(* Numbers are fixed point: dollars and degrees in tenths, timestamps in   *)
(* half days (day d at 00:00 is 2*d, at 12:00 is 2*d+1).  A pandas cell    *)
(* that may be NaN/NaT is a record [isna, v].                              *)
(***************************************************************************)
EXTENDS Integers, Sequences, FiniteSets, TLC

VARIABLES
    sheet,            \* sheet.get_all_values(): the rows of the spreadsheet, header first
    cache,            \* st.cache_data entry of load_data (ttl=60)
    connected,        \* st.cache_resource entry of connect_gsheet
    pc,               \* position of the script in the current pass
    password,         \* text entered in the sidebar in the current pass
    event,            \* widget that triggered the pass: "none", "submit", "refresh"
    form,             \* values of add_form when it was submitted
    df,               \* the script's variable df
    dfIn,             \* df as it stood at line 96, before the filters
    fs,               \* values of the filter widgets (multiselect, slider, date_input)
    error,            \* what the pass surfaced: st.error text or the uncaught exception
    failed,           \* Record Source operation that failed in the submit handler
    ops,              \* Record Source operations made in the current pass
    outputs,          \* what the pass rendered
    view_type,        \* st.radio "Map view:"
    category_colors,  \* dict category -> color
    color_cycle,      \* number of next(color_cycle) calls made so far
    uniq,             \* categories the loop of line 160 has visited, in order
    draw              \* draw instructions handed to folium

vars == <<sheet, cache, connected, pc, password, event, form, df, dfIn, fs, error,
          failed, ops, outputs, view_type, category_colors, color_cycle, uniq, draw>>

-----------------------------------------------------------------------------
(* Bounds of the model *)

MaxRows == 2          \* data rows the spreadsheet may hold
MaxDay == 2           \* days the date_input can select: 1..MaxDay

-----------------------------------------------------------------------------
(* Values *)

Secret == "s3cret"
Passwords == {"s3cret", "guess"}

NaN == [isna |-> TRUE, v |-> 0]
Num(x) == [isna |-> FALSE, v |-> x]

Min(S) == CHOOSE x \in S : \A y \in S : x <= y
Max(S) == CHOOSE x \in S : \A y \in S : x >= y
Range(s) == {s[i] : i \in 1..Len(s)}

\* Text of a numeric cell and the number it denotes (tenths).
NumericText == {"0", "50", "100", "300.5", "41.9", "-87.6"}
NumericValue(s) ==
    CASE s = "0" -> 0
      [] s = "50" -> 500
      [] s = "100" -> 1000
      [] s = "300.5" -> 3005
      [] s = "41.9" -> 419
      [] s = "-87.6" -> -876

\* pd.to_numeric(column, errors="coerce") on one cell
to_numeric(s) == IF s \in NumericText THEN Num(NumericValue(s)) ELSE NaN

\* Text of a timestamp cell and the instant it denotes (half days).
TimestampText == {"2024-01-01T00:00:00", "2024-01-02T12:00:00"}
TimestampValue(s) ==
    CASE s = "2024-01-01T00:00:00" -> 2
      [] s = "2024-01-02T12:00:00" -> 5

\* pd.to_datetime(column, errors="coerce") on one cell
to_datetime(s) == IF s \in TimestampText THEN Num(TimestampValue(s)) ELSE NaN

\* pd.to_datetime(date): midnight of that day
date_to_datetime(d) == 2 * d

\* The text get_all_values returns for a number written by append_row.
CellText(x) == CHOOSE s \in NumericText : NumericValue(s) = x

Columns == {"Name", "Latitude", "Longitude", "Sales", "Category", "AddedBy", "Timestamp"}
Header == [c \in Columns |-> c]

Row(n, la, lo, s, c, a, t) ==
    [Name |-> n, Latitude |-> la, Longitude |-> lo, Sales |-> s, Category |-> c,
     AddedBy |-> a, Timestamp |-> t]

\* Rows somebody may have typed into the spreadsheet.
SheetRows ==
    { Row("Deli A", "41.9", "-87.6", "100", "Deli", "Alice", "2024-01-01T00:00:00"),
      Row("Bad", "x", "-87.6", "50", "Grocery", "Bob", ""),
      Row("Bakery B", "41.9", "-87.6", "300.5", "Bakery", "", ""),
      Row("Cafe C", "41.9", "-87.6", "n/a", "Cafe", "", "2024-01-02T12:00:00"),
      Row("No Lon", "41.9", "", "0", "Other", "", "soon"),
      Row("Zero", "41.9", "-87.6", "0", "Other", "", "") }

-----------------------------------------------------------------------------
(* load_data *)

\* dropna with "Longitude" left out of subset
dropna_latitude_only(r) == ~r.Latitude.isna

\* df.dropna(subset=["Latitude","Longitude"]) on one row
dropna_keeps(r) == ~r.Latitude.isna /\ ~r.Longitude.isna

\* lines 47-52: one data row of the frame, its index the row's position
Coerce(row, i) ==
    [idx |-> i, Name |-> row.Name,
     Latitude |-> to_numeric(row.Latitude),
     Longitude |-> to_numeric(row.Longitude),
     Sales |-> to_numeric(row.Sales),
     Category |-> row.Category, AddedBy |-> row.AddedBy,
     Timestamp |-> to_datetime(row.Timestamp)]

\* df["Sales"] etc. exist only if the first row of the sheet names them
HasColumns(vals) == \A c \in {"Sales", "Latitude", "Longitude"} :
                        \E k \in DOMAIN vals[1] : vals[1][k] = c

\* body of load_data on the fetched values; "KeyError" when a column is missing
load_data(vals) ==
    IF vals = <<>> THEN [raised |-> "none", df |-> <<>>]
    ELSE IF ~HasColumns(vals) THEN [raised |-> "KeyError", df |-> <<>>]
    ELSE LET rows == Tail(vals)
             frame == [i \in 1..Len(rows) |-> Coerce(rows[i], i)]
         IN  [raised |-> "none", df |-> SelectSeq(frame, dropna_keeps)]

NoCache == [has |-> FALSE, df |-> <<>>]
Cached(d) == [has |-> TRUE, df |-> d]

-----------------------------------------------------------------------------
(* Pass-local state *)

NoForm == [submitted |-> FALSE, name |-> "", lat |-> "", lng |-> "", sales |-> 0,
           category |-> "", you |-> ""]
NoFilter == [shown |-> FALSE, cats |-> {}, lo |-> 0, hi |-> 0,
             dateShown |-> FALSE, isList |-> FALSE, dates |-> <<>>]

FixedColors ==
    [c \in {"Deli", "Grocery", "Hotel", "Restaurant", "Other"} |->
        CASE c = "Deli" -> "blue"
          [] c = "Grocery" -> "green"
          [] c = "Hotel" -> "purple"
          [] c = "Restaurant" -> "red"
          [] c = "Other" -> "orange"]

Palette == <<"cadetblue", "pink", "darkred", "darkblue", "darkgreen", "lightgray", "black">>

Init ==
    /\ sheet \in {<<>>, <<Header>>}
    /\ cache = NoCache
    /\ connected = FALSE
    /\ pc = "idle"
    /\ password = ""
    /\ event = "none"
    /\ form = NoForm
    /\ df = <<>>
    /\ dfIn = <<>>
    /\ fs = NoFilter
    /\ error = "none"
    /\ failed = "none"
    /\ ops = {}
    /\ outputs = {}
    /\ view_type = "Markers"
    /\ category_colors = FixedColors
    /\ color_cycle = 0
    /\ uniq = <<>>
    /\ draw = <<>>

passLocal == <<event, form, df, dfIn, fs, failed, outputs, view_type,
               category_colors, color_cycle, uniq, draw>>

\* The script ends here with an uncaught exception e; Streamlit shows it.
Crash(e) == /\ pc' = "idle"
            /\ error' = e

-----------------------------------------------------------------------------
(* Environment *)

\* Somebody adds a row to the spreadsheet in Google Sheets.
SheetEdited ==
    /\ Len(sheet) >= 1
    /\ Len(sheet) < MaxRows + 1
    /\ \E r \in SheetRows : sheet' = Append(sheet, r)
    /\ UNCHANGED <<cache, connected, pc, password, error, ops>>
    /\ UNCHANGED passLocal

\* 60 seconds have passed since load_data was cached.
TTLExpired ==
    /\ cache.has
    /\ cache' = NoCache
    /\ UNCHANGED <<sheet, connected, pc, password, error, ops>>
    /\ UNCHANGED passLocal

-----------------------------------------------------------------------------
(* The script, lines 18-60 *)

\* line 21: the pass goes on past the gate
\* the gate with st.stop() left out
GateOpenNoStop(pw) == TRUE
GateOpen(pw) == pw = Secret

\* lines 18-23: a new pass starts; st.stop() ends it when the password is wrong
Gate ==
    /\ pc = "idle"
    /\ \E pw \in Passwords :
        /\ password' = pw
        /\ IF ~GateOpen(pw)
             THEN /\ error' = "Unauthorized"
                  /\ pc' = "idle"
             ELSE /\ error' = "none"
                  /\ pc' = "connect"
    /\ event' = "none"
    /\ form' = NoForm
    /\ df' = <<>>
    /\ dfIn' = <<>>
    /\ fs' = NoFilter
    /\ failed' = "none"
    /\ ops' = {}
    /\ outputs' = {}
    /\ view_type' = "Markers"
    /\ category_colors' = FixedColors
    /\ color_cycle' = 0
    /\ uniq' = <<>>
    /\ draw' = <<>>
    /\ UNCHANGED <<sheet, cache, connected>>

\* lines 28-39: connect_gsheet, cached for the life of the process
Connect ==
    /\ pc = "connect"
    /\ IF connected
         THEN /\ pc' = "load"
              /\ UNCHANGED <<connected, error, ops>>
         ELSE \E ok \in BOOLEAN :
                /\ ops' = ops \cup {"connect"}
                /\ IF ok
                     THEN /\ connected' = TRUE
                          /\ pc' = "load"
                          /\ UNCHANGED error
                     ELSE /\ Crash("SourceUnavailable")
                          /\ UNCHANGED connected
    /\ UNCHANGED <<sheet, cache, password>>
    /\ UNCHANGED passLocal

\* lines 58-60: df = load_data(), through the cache
Load ==
    /\ pc = "load"
    /\ IF cache.has
         THEN /\ df' = cache.df
              /\ pc' = "event"
              /\ UNCHANGED <<cache, error, ops>>
         ELSE \E ok \in BOOLEAN :
                /\ ops' = ops \cup {"fetch"}
                /\ IF ~ok
                     THEN /\ Crash("SourceUnavailable")
                          /\ UNCHANGED <<cache, df>>
                     ELSE LET r == load_data(sheet)
                          IN  IF r.raised # "none"
                                THEN /\ Crash(r.raised)
                                     /\ UNCHANGED <<cache, df>>
                                ELSE /\ cache' = Cached(r.df)
                                     /\ df' = r.df
                                     /\ pc' = "event"
                                     /\ UNCHANGED error
    /\ UNCHANGED <<sheet, connected, password>>
    /\ UNCHANGED <<event, form, dfIn, fs, failed, outputs, view_type,
                   category_colors, color_cycle, uniq, draw>>

-----------------------------------------------------------------------------
(* The script, lines 62-91: the add form and the refresh button *)

FormNames == {"", "New"}
FormLats == {"", "41.9", "abc"}
FormLngs == {"", "-87.6"}
FormSales == {0, 500}
FormCategories == {"Deli", "Other"}
NowStamps == {"2024-01-02T12:00:00"}

\* line 76 with sales < 0 in place of sales <= 0
InvalidAllowsZero(f) == f.name = "" \/ f.lat = "" \/ f.lng = "" \/ f.sales < 0

\* line 76: the condition under which the handler reports and does nothing else
Invalid(f) == f.name = "" \/ f.lat = "" \/ f.lng = "" \/ f.sales <= 0

\* float(text) of line 56 raises ValueError on text that is no number
FloatRaises(s) == to_numeric(s).isna

\* line 56: the row append_row writes, as get_all_values reads it back
AppendedRow(f, now) ==
    Row(f.name, CellText(to_numeric(f.lat).v), CellText(to_numeric(f.lng).v),
        CellText(f.sales), f.category, f.you, now)

\* lines 75-85: the pass was triggered by "Add to sheet"
Submit ==
    /\ pc = "event"
    /\ event' = "submit"
    /\ pc' = "filter"
    /\ \E n \in FormNames, la \in FormLats, lo \in FormLngs, s \in FormSales,
          c \in FormCategories :
        LET f == [submitted |-> TRUE, name |-> n, lat |-> la, lng |-> lo,
                  sales |-> s, category |-> c, you |-> ""]
        IN  /\ form' = f
            /\ IF Invalid(f)
                 THEN /\ error' = "validation"
                      /\ UNCHANGED <<sheet, cache, df, failed, ops>>
               ELSE IF FloatRaises(f.lat) \/ FloatRaises(f.lng)
                 THEN /\ error' = "ValueError: could not convert string to float"
                      /\ UNCHANGED <<sheet, cache, df, failed, ops>>
               ELSE
                 /\ Len(sheet) < MaxRows + 1
                 /\ \E appended \in BOOLEAN, now \in NowStamps :
                      IF ~appended
                        THEN /\ ops' = ops \cup {"append"}
                             /\ failed' = "append"
                             /\ error' = "SourceUnavailable"
                             /\ UNCHANGED <<sheet, cache, df>>
                        ELSE
                          /\ sheet' = Append(sheet, AppendedRow(f, now))
                          /\ ops' = ops \cup {"append", "fetch"}
                          /\ \E fetched \in BOOLEAN :
                               IF ~fetched
                                 THEN /\ cache' = NoCache
                                      /\ failed' = "fetch"
                                      /\ error' = "SourceUnavailable"
                                      /\ UNCHANGED df
                                 ELSE LET r == load_data(sheet')
                                      IN  IF r.raised # "none"
                                            THEN /\ cache' = NoCache
                                                 /\ failed' = "none"
                                                 /\ error' = r.raised
                                                 /\ UNCHANGED df
                                            ELSE /\ cache' = Cached(r.df)
                                                 /\ df' = r.df
                                                 /\ failed' = "none"
                                                 /\ error' = "none"
    /\ UNCHANGED <<connected, password>>
    /\ UNCHANGED <<dfIn, fs, outputs, view_type, category_colors, color_cycle, uniq, draw>>

\* lines 90-91: the pass was triggered by "Refresh data"; df = load_data(), through the cache
Refresh ==
    /\ pc = "event"
    /\ event' = "refresh"
    /\ IF cache.has
         THEN /\ df' = cache.df
              /\ pc' = "filter"
              /\ UNCHANGED <<cache, error, ops>>
         ELSE \E ok \in BOOLEAN :
                /\ ops' = ops \cup {"fetch"}
                /\ IF ~ok
                     THEN /\ Crash("SourceUnavailable")
                          /\ UNCHANGED <<cache, df>>
                     ELSE LET r == load_data(sheet)
                          IN  IF r.raised # "none"
                                THEN /\ Crash(r.raised)
                                     /\ UNCHANGED <<cache, df>>
                                ELSE /\ cache' = Cached(r.df)
                                     /\ df' = r.df
                                     /\ pc' = "filter"
                                     /\ UNCHANGED error
    /\ UNCHANGED <<sheet, connected, password>>
    /\ UNCHANGED <<form, dfIn, fs, failed, outputs, view_type,
                   category_colors, color_cycle, uniq, draw>>

\* lines 75 and 90 both false: the pass was triggered by another widget
OtherWidget ==
    /\ pc = "event"
    /\ pc' = "filter"
    /\ UNCHANGED <<sheet, cache, connected, password, error, ops>>
    /\ UNCHANGED passLocal

-----------------------------------------------------------------------------
(* The script, lines 96-117: the filters *)

SalesStops == {1500}

\* int(nan) of line 107
IntNaN == "ValueError: cannot convert float NaN to integer"

\* int(x) of line 107 on a number: truncation toward zero
int(x) == IF x >= 0 THEN (x \div 10) * 10 ELSE -(((-x) \div 10) * 10)

Categories(d) == {d[i].Category : i \in 1..Len(d)}
SalesOf(d) == {d[i].Sales.v : i \in {j \in 1..Len(d) : ~d[j].Sales.isna}}
StampsOf(d) == {d[i].Timestamp.v : i \in {j \in 1..Len(d) : ~d[j].Timestamp.isna}}

\* line 104
CategoryKeeps(r, f) == r.Category \in f.cats
CategoryFilter(d, f) == LET keep(r) == CategoryKeeps(r, f) IN SelectSeq(d, keep)

\* line 109: a comparison with NaN is False
SalesKeeps(r, f) == ~r.Sales.isna /\ r.Sales.v >= f.lo /\ r.Sales.v <= f.hi
SalesFilter(d, f) == LET keep(r) == SalesKeeps(r, f) IN SelectSeq(d, keep)

\* lines 112 and 115: whether line 117 runs on d
DateApplies(d, f) == StampsOf(d) # {} /\ f.isList /\ Len(f.dates) = 2

\* line 117: a comparison with NaT is False
DateKeeps(r, f) ==
    /\ ~r.Timestamp.isna
    /\ r.Timestamp.v >= date_to_datetime(f.dates[1])
    /\ r.Timestamp.v <= date_to_datetime(f.dates[2])
DateFilter(d, f) ==
    IF DateApplies(d, f)
      THEN LET keep(r) == DateKeeps(r, f) IN SelectSeq(d, keep)
      ELSE d

\* values the slider of line 108 can return between its ends
SliderValues(lo, hi) == {lo, hi} \cup {s \in SalesStops : lo < s /\ s < hi}

\* values date_input can return: one date while the user is picking, or a range
DateRanges == {<<a>> : a \in 1..MaxDay}
              \cup {<<a, b>> : a \in 1..MaxDay, b \in 1..MaxDay}

Filter ==
    /\ pc = "filter"
    /\ dfIn' = df
    /\ form' = NoForm
    /\ IF df = <<>>
         THEN /\ pc' = "render"
              /\ UNCHANGED <<df, fs, error>>
         ELSE \E sel \in SUBSET Categories(df) :
                LET f1 == [NoFilter EXCEPT !.shown = TRUE, !.cats = sel]
                    d1 == CategoryFilter(df, f1)
                IN  IF SalesOf(d1) = {}
                      THEN \* int(nan) raises ValueError
                           /\ Crash(IntNaN)
                           /\ df' = d1
                           /\ fs' = f1
                      ELSE LET min_sales == int(Min(SalesOf(d1)))
                               max_sales == int(Max(SalesOf(d1)))
                           IN  \E lo \in SliderValues(min_sales, max_sales),
                                  hi \in SliderValues(min_sales, max_sales) :
                                 /\ lo <= hi
                                 /\ LET f2 == [f1 EXCEPT !.lo = lo, !.hi = hi]
                                        d2 == SalesFilter(d1, f2)
                                    IN  IF StampsOf(d2) = {}
                                          THEN /\ fs' = f2
                                               /\ df' = d2
                                          ELSE \E isList \in BOOLEAN, dr \in DateRanges :
                                                 LET f3 == [f2 EXCEPT !.dateShown = TRUE,
                                                                      !.isList = isList,
                                                                      !.dates = dr]
                                                 IN  /\ Len(dr) = 2 => dr[1] <= dr[2]
                                                     /\ fs' = f3
                                                     /\ df' = DateFilter(d2, f3)
                                 /\ pc' = "render"
                                 /\ UNCHANGED error
    /\ UNCHANGED <<sheet, cache, connected, password, ops>>
    /\ UNCHANGED <<event, failed, outputs, view_type, category_colors, color_cycle,
                   uniq, draw>>

-----------------------------------------------------------------------------
(* The script, lines 150-247: colors, map, summary, table, export *)

\* Series.unique(): the distinct values in order of first appearance
RECURSIVE UniqueFrom(_, _, _)
UniqueFrom(d, i, acc) ==
    IF i > Len(d) THEN acc
    ELSE UniqueFrom(d, i + 1,
                    IF d[i].Category \in Range(acc) THEN acc ELSE Append(acc, d[i].Category))
Unique(d) == UniqueFrom(d, 1, <<>>)

\* the loop body with next(color_cycle) taken before the membership test
ColorStepAlwaysNext(st, cat) ==
    IF cat \in DOMAIN st.cc
      THEN [st EXCEPT !.n = st.n + 1]
      ELSE [cc |-> (cat :> Palette[(st.n % Len(Palette)) + 1]) @@ st.cc, n |-> st.n + 1]

\* lines 161-162: one iteration of the loop; st = [cc: the dict, n: calls of next()]
ColorStep(st, cat) ==
    IF cat \in DOMAIN st.cc
      THEN st
      ELSE [cc |-> (cat :> Palette[(st.n % Len(Palette)) + 1]) @@ st.cc, n |-> st.n + 1]

\* lines 152-162
RECURSIVE ColorLoop(_, _, _)
ColorLoop(st, cats, i) ==
    IF i > Len(cats) THEN st ELSE ColorLoop(ColorStep(st, cats[i]), cats, i + 1)
AssignColors(cats) == ColorLoop([cc |-> FixedColors, n |-> 0], cats, 1)

MinRadius == 40
RadiusScale == 150

\* line 180: max(4, r["Sales"] / df["Sales"].max() * 15); NaN and x/0 never exceed 4
Radius(sales, d) ==
    IF sales.isna \/ SalesOf(d) = {} \/ Max(SalesOf(d)) = 0 THEN MinRadius
    ELSE LET x == (sales.v * RadiusScale) \div Max(SalesOf(d))
         IN  IF x > MinRadius THEN x ELSE MinRadius

\* line 181
ColorOf(cc, cat) == IF cat \in DOMAIN cc THEN cc[cat] ELSE "gray"

\* lines 167-188
DrawList(d, vt, cc) ==
    IF vt = "Markers"
      THEN [i \in 1..Len(d) |->
              [lat |-> d[i].Latitude.v, lon |-> d[i].Longitude.v,
               radius |-> Radius(d[i].Sales, d), color |-> ColorOf(cc, d[i].Category)]]
      ELSE [i \in 1..Len(d) |->
              [lat |-> d[i].Latitude.v, lon |-> d[i].Longitude.v, weight |-> d[i].Sales]]

Render ==
    /\ pc = "render"
    /\ \E vt \in {"Markers", "Heatmap"} :
        LET st == AssignColors(Unique(df))
        IN  /\ view_type' = vt
            /\ uniq' = Unique(df)
            /\ category_colors' = st.cc
            /\ color_cycle' = st.n
            /\ draw' = DrawList(df, vt, st.cc)
    /\ outputs' = {"map", "table", "csv"}
                  \cup (IF df # <<>> THEN {"legend", "summary"} ELSE {})
    /\ pc' = "idle"
    /\ UNCHANGED <<sheet, cache, connected, password, error, ops>>
    /\ UNCHANGED <<event, form, df, dfIn, fs, failed>>

Next ==
    \/ SheetEdited
    \/ TTLExpired
    \/ Gate
    \/ Connect
    \/ Load
    \/ Submit
    \/ Refresh
    \/ OtherWidget
    \/ Filter
    \/ Render

Spec == Init /\ [][Next]_vars

-----------------------------------------------------------------------------
(* The loop of lines 160-162 on its own, one iteration per step, over any   *)
(* order in which unique() may list the categories of a record set.         *)

ColorCategories ==
    {"Deli", "Bakery", "Cafe", "Bar", "Gym", "Spa", "Bank", "Salon", "Florist"}

InitColors ==
    /\ sheet = <<Header>>
    /\ cache = NoCache
    /\ connected = TRUE
    /\ pc = "colors"
    /\ password = Secret
    /\ event = "none"
    /\ form = NoForm
    /\ df = <<>>
    /\ dfIn = <<>>
    /\ fs = NoFilter
    /\ error = "none"
    /\ failed = "none"
    /\ ops = {}
    /\ outputs = {}
    /\ view_type = "Markers"
    /\ category_colors = FixedColors
    /\ color_cycle = 0
    /\ uniq = <<>>
    /\ draw = <<>>

\* one iteration of "for cat in df["Category"].dropna().unique()"
ColorIteration ==
    /\ pc = "colors"
    /\ \E cat \in ColorCategories \ Range(uniq) :
        LET st == ColorStep([cc |-> category_colors, n |-> color_cycle], cat)
        IN  /\ category_colors' = st.cc
            /\ color_cycle' = st.n
            /\ uniq' = Append(uniq, cat)
    /\ UNCHANGED <<sheet, cache, connected, pc, password, event, form, df, dfIn, fs,
                   error, failed, ops, outputs, view_type, draw>>

NextColors == ColorIteration

SpecColors == InitColors /\ [][NextColors]_vars

-----------------------------------------------------------------------------
(* Claims *)

InSeq(r, d) == \E i \in 1..Len(d) : d[i] = r

\* A fetch was made and load_data returned in this step: a cache miss at line 60
\* or 91 that filled the cache, or the call of line 83 after an append.
FetchedStep ==
    \/ pc \in {"load", "event"} /\ ~cache.has /\ cache'.has
    \/ pc = "event" /\ event' = "submit" /\ sheet' # sheet /\ cache'.has

\* d is vals without the rows whose latitude or longitude is no number, in order.
IngestionOf(vals, d) ==
    LET rows == IF vals = <<>> THEN <<>> ELSE Tail(vals)
    IN  /\ \A i \in 1..Len(rows) :
              (\E j \in 1..Len(d) : d[j].idx = i)
                  <=> (rows[i].Latitude \in NumericText /\ rows[i].Longitude \in NumericText)
        /\ \A j \in 1..Len(d) :
              /\ d[j].idx \in 1..Len(rows)
              /\ d[j].Name = rows[d[j].idx].Name
              /\ d[j].Category = rows[d[j].idx].Category
              /\ \A k \in 1..Len(d) : j < k => d[j].idx < d[k].idx

LatLonNumeric(d) == \A i \in 1..Len(d) : ~d[i].Latitude.isna /\ ~d[i].Longitude.isna

\* C1: every record of the working set and of the cached snapshot has a numeric
\* latitude and longitude, and a fetch keeps exactly the rows whose latitude and
\* longitude parse, in source order (rows with bad sales or timestamp included).
C1_ValidCoordinates ==
    /\ [](LatLonNumeric(df) /\ LatLonNumeric(cache.df) /\ LatLonNumeric(dfIn))
    /\ [][FetchedStep => (df' = cache'.df /\ IngestionOf(sheet', df'))]_vars

C1_Witness ==
    /\ pc = "event"
    /\ cache.has
    /\ df = cache.df
    /\ Len(sheet) = 3
    /\ sheet[2].Latitude = "x"
    /\ Len(df) = 1
    /\ df[1].idx = 2
    /\ df[1].Sales.isna

\* C2: in the pass where "Refresh data" is pressed the working set is the
\* ingestion of what the spreadsheet holds at that moment.
C2_RefreshReadsSource ==
    [][(pc = "event" /\ event' = "refresh" /\ pc' = "filter")
          => df' = load_data(sheet).df]_vars

DateFilterApplied == pc = "render" /\ fs.dateShown /\ fs.isList /\ Len(fs.dates) = 2

C4_EmptyResultNoError ==
    (fs.shown /\ dfIn # <<>> /\ df = <<>>) =>
        /\ error # IntNaN
        /\ pc = "idle" => ("map" \in outputs /\ draw = <<>>)

\* C5: a submitted form with an empty name, latitude or longitude, or with sales
\* that are not positive, is reported and never reaches the spreadsheet: no
\* append, the rows and the cached snapshot unchanged.
C5_InvalidFormStaysLocal ==
    [][(pc = "event" /\ event' = "submit"
          /\ (form'.name = "" \/ form'.lat = "" \/ form'.lng = "" \/ form'.sales <= 0))
        => (sheet' = sheet /\ cache' = cache /\ ops' = ops /\ df' = df
            /\ error' = "validation")]_vars

C5_Witness ==
    /\ event = "submit"
    /\ pc = "filter"
    /\ form.submitted
    /\ form.name = "New" /\ form.lat = "41.9" /\ form.lng = "-87.6" /\ form.sales = 0
    /\ error = "validation"
    /\ cache.has
    /\ Len(sheet) = 2

\* C6: when the append or the fetch after it fails, the failure is surfaced and
\* the record set held before stays the working set and stays in the cache for
\* the passes that follow.
C6_PriorDataRetained ==
    [][(pc = "event" /\ failed' # "none")
        => (error' = "SourceUnavailable" /\ df' = df /\ cache' = cache)]_vars

\* C7: the default ends of the sales slider are the observed minimum and maximum,
\* so with them no record with numeric sales is excluded.
C7_DefaultBoundsKeepAll ==
    LET d1 == CategoryFilter(dfIn, fs)
    IN  (pc = "render" /\ fs.shown
           /\ fs.lo = int(Min(SalesOf(d1))) /\ fs.hi = int(Max(SalesOf(d1))))
        => /\ fs.lo = Min(SalesOf(d1))
           /\ fs.hi = Max(SalesOf(d1))
           /\ \A i \in 1..Len(d1) : ~d1[i].Sales.isna => SalesKeeps(d1[i], fs)

\* C8: a pass whose password is not the secret stops at the gate: no Record
\* Source operation, no data, nothing rendered; operations occur only in passes
\* whose password is the secret.
C8_GateStopsPass ==
    /\ password # Secret =>
          (ops = {} /\ outputs = {} /\ df = <<>> /\ draw = <<>> /\ pc = "idle")
    /\ (ops # {} \/ outputs # {}) => password = Secret

C8_Witness ==
    /\ password = "guess"
    /\ error = "Unauthorized"
    /\ cache.has
    /\ cache.df # <<>>
    /\ connected

\* The FilterState of the pass with date bounds dr, as the date widget gives them
\* when it is shown.
WithDates(dr) == [fs EXCEPT !.dateShown = TRUE, !.isList = TRUE, !.dates = dr]

\* C9: the three filters give the same set in all six orders, each with its own
\* applicability check, and that set is a subset of the input.
C9_FiltersCommute ==
    (pc = "render" /\ fs.shown) =>
        \A dr \in {r \in DateRanges : Len(r) = 2 /\ r[1] <= r[2]} :
            LET f == IF fs.dateShown THEN fs ELSE WithDates(dr)
                C(d) == CategoryFilter(d, f)
                S(d) == SalesFilter(d, f)
                D(d) == DateFilter(d, f)
            IN  /\ df = D(S(C(dfIn)))
                /\ df = D(C(S(dfIn)))
                /\ df = S(D(C(dfIn)))
                /\ df = S(C(D(dfIn)))
                /\ df = C(D(S(dfIn)))
                /\ df = C(S(D(dfIn)))
                /\ \A i \in 1..Len(df) : InSeq(df[i], dfIn)

\* Number of categories outside the fixed five visited before position i.
FallbacksBefore(i) == Cardinality({j \in 1..(i - 1) : uniq[j] \notin DOMAIN FixedColors})

\* C10: the fixed five keep their colors, and the k-th category outside them in
\* first-encounter order (k from 0) has fallback palette entry k mod 7.
C10_ColorAssignment ==
    /\ \A c \in DOMAIN FixedColors :
          c \in DOMAIN category_colors /\ category_colors[c] = FixedColors[c]
    /\ \A i \in 1..Len(uniq) :
          /\ uniq[i] \in DOMAIN category_colors
          /\ uniq[i] \notin DOMAIN FixedColors =>
                category_colors[uniq[i]] = Palette[(FallbacksBefore(i) % 7) + 1]

C10_Witness ==
    /\ Len(uniq) = 9
    /\ uniq[1] = "Bakery" /\ category_colors["Bakery"] = "cadetblue"
    /\ uniq[2] = "Cafe" /\ category_colors["Cafe"] = "pink"
    /\ uniq[3] = "Deli" /\ category_colors["Deli"] = "blue"
    /\ category_colors[uniq[9]] = "cadetblue"
====
